---------------------------- MODULE Spec2Model ----------------------------
(***************************************************************************)
(* COMICS (src/comics.py): transient ice volume relaxing towards a        *)
(* control-parameter dependent equilibrium band.                          *)
(*                                                                         *)
(* The script is a Python 2 program (its indentation mixes tabs and       *)
(* spaces, lines 88 and 94, and it slices with number_of_timesteps/2,     *)
(* line 315), so number_of_timesteps/2 is an integer division.            *)
(*                                                                         *)
(* Python floats are represented as integers counting units of 1/Scale    *)
(* (fixed point, four decimals).  Products and quotients round towards    *)
(* minus infinity to the unit.  Every literal of the script and every     *)
(* configuration value drawn below is a whole number of units.            *)
(***************************************************************************)
EXTENDS Integers, Sequences, FiniteSets, TLC

VARIABLES
    \* I) settings (src/comics.py:49-67), fixed for a run
    eq_profile, ctl_profile, start_option, number_of_timesteps, time_max,
    set_growth_rate, set_decay_rate,
    choose_second_run, second_run_option, start_option_2nd,
    period_reduction_factor, amplitude_reduction_factor,
    multiply_decay, multiply_growth,
    \* position of the script and the loop variable
    pc, t,
    \* the lists of both runs, by name: time, control_profile,
    \* equilibrium_profile_top, equilibrium_profile_bottom, icevolume,
    \* control_2nd, equilibrium_profile_top_2nd,
    \* equilibrium_profile_bottom_2nd, icevolume_2nd; and, as rule and
    \* rule_2nd, the branch of the step rule each step took
    series

settings == <<eq_profile, ctl_profile, start_option, number_of_timesteps,
              time_max, set_growth_rate, set_decay_rate, choose_second_run,
              second_run_option, start_option_2nd, period_reduction_factor,
              amplitude_reduction_factor, multiply_decay, multiply_growth>>

vars == <<settings, pc, t, series>>

time                           == series.time
control_profile                == series.control_profile
equilibrium_profile_top        == series.equilibrium_profile_top
equilibrium_profile_bottom     == series.equilibrium_profile_bottom
icevolume                      == series.icevolume
rule                           == series.rule
control_2nd                    == series.control_2nd
equilibrium_profile_top_2nd    == series.equilibrium_profile_top_2nd
equilibrium_profile_bottom_2nd == series.equilibrium_profile_bottom_2nd
icevolume_2nd                  == series.icevolume_2nd
rule_2nd                       == series.rule_2nd

---------------------------------------------------------------------------
(* Fixed-point arithmetic *)

Scale == 10000

\* the decimal n/d, e.g. Dec(2, 1000) is 0.002
Dec(n, d) == (n * Scale) \div d

Mul(a, b) == (a * b) \div Scale

Div(a, b) == (a * Scale) \div b

Max(a, b) == IF a >= b THEN a ELSE b

\* the largest r in lo..hi with r*r <= n (lo*lo <= n is given)
RECURSIVE ISqrt(_, _, _)
ISqrt(n, lo, hi) ==
    IF lo >= hi THEN lo
    ELSE LET mid == (lo + hi + 1) \div 2
         IN  IF mid * mid <= n THEN ISqrt(n, mid, hi) ELSE ISqrt(n, lo, mid - 1)

\* math.sqrt of a non-negative value
Sqrt(x) == ISqrt(x * Scale, 0, 46340)

Pi == 31416

\* math.sin on [0, pi/2]: the Taylor polynomial up to x^9, in Horner form
SinQ ==
    [x \in 0 .. (Pi \div 2) |->
        LET x2 == Mul(x, x)
            h4 == Scale - (x2 \div 72)
            h3 == Scale - (Mul(x2, h4) \div 42)
            h2 == Scale - (Mul(x2, h3) \div 20)
            h1 == Scale - (Mul(x2, h2) \div 6)
        IN  Mul(x, h1)]

\* math.sin(2*pi*n/period) for an integer n, by the sine's symmetries
SinTurn(n, period) ==
    LET m == n % period
        x == ((2 * Pi) * m) \div period
    IN  IF 4 * m <= period THEN SinQ[x]
        ELSE IF 4 * m <= 2 * period THEN SinQ[Pi - x]
        ELSE IF 4 * m <= 3 * period THEN 0 - SinQ[x - Pi]
        ELSE 0 - SinQ[(2 * Pi) - x]

---------------------------------------------------------------------------
(* II) C-Veq relations *)

KnownEqProfile(p) == p \in {"simple", "hysteresis", "PISM", "custom"}

PismTop(c) ==
    IF c < 2671 THEN 181000 - Div(Mul(181000 - 167000, c), 2671)
    ELSE IF c >= 2671 /\ c < 5342
         THEN 167000 - Div(Mul(167000 - 65000, c - 2671), 2671)
    ELSE IF c >= 5342 /\ c < 7671
         THEN 65000 - Div(Mul(65000 - 33000, c - 5342), 2329)
    ELSE 33000 - Div(Mul(33000 - 18000, c - 7671), 2329)

PismBottom(c) ==
    IF c < 2671 THEN 181000 - Div(Mul(181000 - 151000, c), 2671)
    ELSE IF c >= 2671 /\ c < 5342
         THEN 151000 - Div(Mul(151000 - 51000, c - 2671), 2671)
    ELSE IF c >= 5342 /\ c < 7671
         THEN 51000 - Div(Mul(51000 - 22000, c - 5342), 2329)
    ELSE 22000 - Div(Mul(22000 - 13000, c - 7671), 2329)

HysteresisTop(c) ==
    IF c > 5000 THEN Mul(Scale - c, 14000) ELSE Scale - Mul(c, 6000)

\* HysteresisBottom with the slope of the lower half mistyped
HysteresisBottomSlope(c) ==
    IF c > 5000 THEN Mul(Scale - c, 6000) ELSE Scale - Mul(c, 4000)

HysteresisBottom(c) ==
    IF c > 5000 THEN Mul(Scale - c, 6000) ELSE Scale - Mul(c, 14000)

\* the function the eq_profile dispatch installs, by family
FamilyTop(p, c) ==
    CASE p = "simple"     -> Scale - c
      [] p = "hysteresis" -> HysteresisTop(c)
      [] p = "PISM"       -> PismTop(c)
      [] OTHER            -> Scale - c

FamilyBottom(p, c) ==
    CASE p = "simple"     -> Scale - c
      [] p = "hysteresis" -> HysteresisBottom(c)
      [] p = "PISM"       -> PismBottom(c)
      [] OTHER            -> Scale - c

equilibrium_icevolume_top(c) == FamilyTop(eq_profile, c)

equilibrium_icevolume_bottom(c) == FamilyBottom(eq_profile, c)

---------------------------------------------------------------------------
(* III) Control parameter evolution *)

\* KnownCtlProfile with the final else branch missing
KnownCtlProfileAny(p) == p = p

KnownCtlProfile(p) == p \in {"triangle", "custom"}

triangle(tt) ==
    LET m    == tt % number_of_timesteps
        half == number_of_timesteps \div 2
        c    == IF m < half THEN Scale - Div(m * Scale, half * Scale)
                ELSE Div((m - half) * Scale, half * Scale)
    IN  IF start_option = "cold" THEN Mul(c, 0 - Scale) + Scale ELSE c

\* one orbital term ((sin((t-0)*2*pi/period)+1)/2)*weight
Orbital(tt, period, weight) ==
    Mul(Div(SinTurn(tt - 0, period) + Scale, 2 * Scale), weight)

custom(tt) ==
    LET precession       == Orbital(tt, 230, 0)
        obliquity        == Orbital(tt, 410, 5000)
        eccentricity     == Orbital(tt, 1050, 0)
        eccentricity_mod == Orbital(tt, 4000, 0)
    IN  precession + obliquity + eccentricity + eccentricity_mod

control(tt) == IF ctl_profile = "triangle" THEN triangle(tt) ELSE custom(tt)

---------------------------------------------------------------------------
(* IV) Growth and decay rates *)

growth_rate(c, v, equilibrium_icesheet_bottom) ==
    IF eq_profile = "PISM"
    THEN 40 + Mul(120, Sqrt(Max(0, equilibrium_icesheet_bottom - v - 90000)))
    ELSE set_growth_rate

\* decay_rate with the overshoot taken the wrong way round
decay_rate_reversed(c, v, equilibrium_icesheet_top) ==
    IF eq_profile = "PISM"
    THEN 100 + Mul(equilibrium_icesheet_top - v, 100)
    ELSE set_decay_rate

decay_rate(c, v, equilibrium_icesheet_top) ==
    IF eq_profile = "PISM"
    THEN 100 + Mul(v - equilibrium_icesheet_top, 100)
    ELSE set_decay_rate

---------------------------------------------------------------------------
(* 2) Initialization *)

Indices == 0 .. (time_max - 1)

StartVolume(option) ==
    IF option = "warm" THEN 13000
    ELSE IF option = "cold" THEN 230000
    ELSE 0

StartControl(option) == IF option = "cold" THEN 0 ELSE Scale

\* a list [0 for i in range(time_max)] with its entry 0 then set to first
Zeros(first) == [i \in Indices |-> IF i = 0 THEN first ELSE 0]

\* no list is bound before the initialization
Unbound ==
    [time                           |-> << >>,
     control_profile                |-> << >>,
     equilibrium_profile_top        |-> << >>,
     equilibrium_profile_bottom     |-> << >>,
     icevolume                      |-> << >>,
     rule                           |-> << >>,
     control_2nd                    |-> << >>,
     equilibrium_profile_top_2nd    |-> << >>,
     equilibrium_profile_bottom_2nd |-> << >>,
     icevolume_2nd                  |-> << >>,
     rule_2nd                       |-> << >>]

\* the lists of the primary run after lines 183-209
InitPrimary(m) ==
    [m EXCEPT
       !.time                       = Zeros(1),
       !.control_profile            = Zeros(StartControl(start_option)),
       !.equilibrium_profile_top    = Zeros(0),
       !.equilibrium_profile_bottom = Zeros(0),
       !.icevolume                  = Zeros(StartVolume(start_option)),
       !.rule                       = [i \in Indices |-> "none"]]

\* the lists of the second run after lines 213-235
InitSecond(m) ==
    [m EXCEPT
       !.control_2nd                    = Zeros(StartControl(start_option_2nd)),
       !.equilibrium_profile_top_2nd    = Zeros(0),
       !.equilibrium_profile_bottom_2nd = Zeros(0),
       !.icevolume_2nd                  = Zeros(StartVolume(start_option_2nd)),
       !.rule_2nd                       = [i \in Indices |-> "none"]]

\* lines 183-235
Initialization(m) ==
    IF choose_second_run = "yes" THEN InitSecond(InitPrimary(m))
    ELSE InitPrimary(m)

---------------------------------------------------------------------------
(* 3) Calculation of time evolution *)

timestep_length == 1

amplitude_center == 5000

\* Branch with the comparisons made inclusive
BranchInclusive(prev, top, bottom) ==
    IF prev >= top THEN "Decay"
    ELSE IF prev <= bottom THEN "Growth"
    ELSE "Hold"

\* the branch of the if/elif/else of lines 248-253 and 270-275
Branch(prev, top, bottom) ==
    IF prev > top THEN "Decay"
    ELSE IF prev < bottom THEN "Growth"
    ELSE "Hold"

\* NewVolume with the decay added instead of subtracted
NewVolumeAdds(prev, c, top, bottom) ==
    LET b == Branch(prev, top, bottom)
    IN  IF b = "Decay" THEN prev + decay_rate(c, prev, top)
        ELSE IF b = "Growth" THEN prev + growth_rate(c, prev, bottom)
        ELSE prev

\* NewVolume with the result stopped at the bound that triggered the step
NewVolumeClamped(prev, c, top, bottom) ==
    LET b == Branch(prev, top, bottom)
    IN  IF b = "Decay" THEN Max(prev - decay_rate(c, prev, top), top)
        ELSE IF b = "Growth"
             THEN 0 - Max(0 - (prev + growth_rate(c, prev, bottom)), 0 - bottom)
        ELSE prev

\* icevolume[t] of lines 248-253
NewVolume(prev, c, top, bottom) ==
    LET b == Branch(prev, top, bottom)
    IN  IF b = "Decay" THEN prev - decay_rate(c, prev, top)
        ELSE IF b = "Growth" THEN prev + growth_rate(c, prev, bottom)
        ELSE prev

\* icevolume_2nd[t] of lines 270-275
NewVolume2nd(prev, c, top, bottom) ==
    LET b == Branch(prev, top, bottom)
    IN  IF b = "Decay" THEN prev - Mul(multiply_decay, decay_rate(c, prev, top))
        ELSE IF b = "Growth"
             THEN prev + Mul(multiply_growth, growth_rate(c, prev, bottom))
        ELSE prev

\* SecondControl with the phase flip applied when the start policies agree
SecondControlFlipped(tt) ==
    LET c == IF second_run_option = "amplitude_reduced"
             THEN Mul(amplitude_reduction_factor, control(tt))
                  + (amplitude_center - Div(amplitude_reduction_factor, 2 * Scale))
             ELSE IF second_run_option = "period_reduced"
                  THEN control(period_reduction_factor * tt)
             ELSE control(tt)
    IN  IF start_option = start_option_2nd THEN Mul(c, 0 - Scale) + Scale ELSE c

\* control_2nd[t] of lines 257-265
SecondControl(tt) ==
    LET c == IF second_run_option = "amplitude_reduced"
             THEN Mul(amplitude_reduction_factor, control(tt))
                  + (amplitude_center - Div(amplitude_reduction_factor, 2 * Scale))
             ELSE IF second_run_option = "period_reduced"
                  THEN control(period_reduction_factor * tt)
             ELSE control(tt)
    IN  IF ~(start_option = start_option_2nd) THEN Mul(c, 0 - Scale) + Scale ELSE c

\* PrimaryStep with the volume stored one index early
PrimaryStepEarly(m, tt) ==
    LET c      == control(tt)
        top    == equilibrium_icevolume_top(c)
        bottom == equilibrium_icevolume_bottom(c)
        prev   == m.icevolume[tt - 1]
    IN  [m EXCEPT
           !.time[tt]                       = tt * timestep_length,
           !.control_profile[tt]            = c,
           !.equilibrium_profile_top[tt]    = top,
           !.equilibrium_profile_bottom[tt] = bottom,
           !.icevolume[tt - 1]              = NewVolume(prev, c, top, bottom),
           !.rule[tt]                       = Branch(prev, top, bottom)]

\* lines 243-253 for loop index tt
PrimaryStep(m, tt) ==
    LET c      == control(tt)
        top    == equilibrium_icevolume_top(c)
        bottom == equilibrium_icevolume_bottom(c)
        prev   == m.icevolume[tt - 1]
    IN  [m EXCEPT
           !.time[tt]                       = tt * timestep_length,
           !.control_profile[tt]            = c,
           !.equilibrium_profile_top[tt]    = top,
           !.equilibrium_profile_bottom[tt] = bottom,
           !.icevolume[tt]                  = NewVolume(prev, c, top, bottom),
           !.rule[tt]                       = Branch(prev, top, bottom)]

\* SecondStep with its volume stored in the primary run's list
SecondStepShared(m, tt) ==
    LET c      == SecondControl(tt)
        top    == equilibrium_icevolume_top(c)
        bottom == equilibrium_icevolume_bottom(c)
        prev   == m.icevolume_2nd[tt - 1]
    IN  [m EXCEPT
           !.control_2nd[tt]                    = c,
           !.equilibrium_profile_top_2nd[tt]    = top,
           !.equilibrium_profile_bottom_2nd[tt] = bottom,
           !.icevolume[tt]                      = NewVolume2nd(prev, c, top, bottom),
           !.rule_2nd[tt]                       = Branch(prev, top, bottom)]

\* lines 257-275 for loop index tt
SecondStep(m, tt) ==
    LET c      == SecondControl(tt)
        top    == equilibrium_icevolume_top(c)
        bottom == equilibrium_icevolume_bottom(c)
        prev   == m.icevolume_2nd[tt - 1]
    IN  [m EXCEPT
           !.control_2nd[tt]                    = c,
           !.equilibrium_profile_top_2nd[tt]    = top,
           !.equilibrium_profile_bottom_2nd[tt] = bottom,
           !.icevolume_2nd[tt]                  = NewVolume2nd(prev, c, top, bottom),
           !.rule_2nd[tt]                       = Branch(prev, top, bottom)]

\* one pass of the loop body, lines 243-275
LoopBody(m, tt) ==
    IF choose_second_run = "yes" THEN SecondStep(PrimaryStep(m, tt), tt)
    ELSE PrimaryStep(m, tt)

---------------------------------------------------------------------------
(* The script as a state machine *)

MaxTime == 6

Rates ==
    {<<Dec(2, 1000), Dec(4, 1000)>>, <<Dec(5, 10), Dec(6, 10)>>,
     <<Dec(3, 10), Dec(3, 10)>>}

Rescales == {<<2, Dec(5, 10)>>, <<3, Dec(2, 1)>>}

Multipliers == {<<Dec(1, 1), Dec(1, 1)>>, <<Dec(2, 1), Dec(5, 10)>>}

StartOptions == {"zero", "warm", "cold"}

Init ==
    /\ eq_profile \in {"simple", "hysteresis", "PISM", "custom", "linear"}
    /\ ctl_profile \in {"triangle", "custom", "sine"}
    /\ start_option \in StartOptions
    /\ number_of_timesteps \in {4, 8}
    /\ time_max \in 0 .. MaxTime
    /\ \E r \in Rates : set_growth_rate = r[1] /\ set_decay_rate = r[2]
    /\ choose_second_run \in {"no", "yes"}
    /\ IF choose_second_run = "yes"
       THEN /\ second_run_option \in {"same", "amplitude_reduced", "period_reduced"}
            /\ start_option_2nd \in StartOptions
            /\ \E r \in Rescales : /\ period_reduction_factor = r[1]
                                  /\ amplitude_reduction_factor = r[2]
            /\ \E r \in Multipliers : /\ multiply_decay = r[1]
                                     /\ multiply_growth = r[2]
       ELSE /\ second_run_option = "same"
            /\ start_option_2nd = "zero"
            /\ period_reduction_factor = 2
            /\ amplitude_reduction_factor = Dec(5, 10)
            /\ multiply_decay = Dec(1, 1)
            /\ multiply_growth = Dec(1, 1)
    /\ pc = "eq_profile"
    /\ t = 0
    /\ series = Unbound

\* lines 73-131: a known C-Veq relation is installed
SelectEquilibrium ==
    /\ pc = "eq_profile"
    /\ KnownEqProfile(eq_profile)
    /\ pc' = "ctl_profile"
    /\ UNCHANGED <<settings, t, series>>

\* lines 132-133: sys.exit("ERROR: Undefined C-Veq relation")
ExitUndefinedEquilibrium ==
    /\ pc = "eq_profile"
    /\ ~KnownEqProfile(eq_profile)
    /\ pc' = "exit"
    /\ UNCHANGED <<settings, t, series>>

\* lines 138-157: a known control parameter evolution is installed
SelectControl ==
    /\ pc = "ctl_profile"
    /\ KnownCtlProfile(ctl_profile)
    /\ pc' = "initialization"
    /\ UNCHANGED <<settings, t, series>>

\* lines 159-160: sys.exit("ERROR: Undefined control parameter evolution")
ExitUndefinedControl ==
    /\ pc = "ctl_profile"
    /\ ~KnownCtlProfile(ctl_profile)
    /\ pc' = "exit"
    /\ UNCHANGED <<settings, t, series>>

\* lines 183-235, then the loop is entered with t = 1
Initialize ==
    /\ pc = "initialization"
    /\ time_max >= 1
    /\ series' = Initialization(series)
    /\ t' = 1
    /\ pc' = "loop"
    /\ UNCHANGED settings

\* lines 184-185 with an empty list: time[0] = 1 raises IndexError
InitializeIndexError ==
    /\ pc = "initialization"
    /\ time_max < 1
    /\ pc' = "IndexError"
    /\ UNCHANGED <<settings, t, series>>

\* lines 241-275: one iteration of for t in range(1,time_max)
Step ==
    /\ pc = "loop"
    /\ t < time_max
    /\ series' = LoopBody(series, t)
    /\ t' = t + 1
    /\ UNCHANGED <<settings, pc>>

\* line 241: range(1,time_max) is exhausted, the series go to the plots
Finish ==
    /\ pc = "loop"
    /\ t >= time_max
    /\ pc' = "done"
    /\ UNCHANGED <<settings, t, series>>

Next ==
    \/ SelectEquilibrium
    \/ ExitUndefinedEquilibrium
    \/ SelectControl
    \/ ExitUndefinedControl
    \/ Initialize
    \/ InitializeIndexError
    \/ Step
    \/ Finish

Spec == Init /\ [][Next]_vars

---------------------------------------------------------------------------
(* Properties *)

Running == pc \in {"loop", "done"}

\* the loop indices whose iteration has been executed
Stepped == IF Running THEN 1 .. (t - 1) ELSE {}

SecondChosen == choose_second_run = "yes"

\* C1: in every executed step of either run exactly one of Decay, Growth,
\* Hold was applied to the previous volume: Decay iff the previous volume is
\* above the recorded top bound, Growth iff it is not above top and is below
\* bottom, Hold otherwise; whenever bottom <= previous <= top (equality
\* included) the step is Hold and the volume is carried over unchanged.
C1_RuleOf(r, prev, new, top, bottom) ==
    /\ r \in {"Decay", "Growth", "Hold"}
    /\ (r = "Decay") <=> (prev > top)
    /\ (r = "Growth") <=> (~(prev > top) /\ prev < bottom)
    /\ (r = "Hold") <=> (~(prev > top) /\ ~(prev < bottom))
    /\ (bottom <= prev /\ prev <= top) => (r = "Hold" /\ new = prev)
    /\ (r = "Hold") => (new = prev)

C1_ThreeWayRule ==
    \A s \in Stepped :
        /\ C1_RuleOf(rule[s], icevolume[s - 1], icevolume[s],
                     equilibrium_profile_top[s], equilibrium_profile_bottom[s])
        /\ SecondChosen =>
               C1_RuleOf(rule_2nd[s], icevolume_2nd[s - 1], icevolume_2nd[s],
                         equilibrium_profile_top_2nd[s],
                         equilibrium_profile_bottom_2nd[s])

\* a finished dual run whose primary run held at volume = bottom < top,
\* decayed and grew, and whose second run held at volume = top > bottom
C1_Witness ==
    /\ pc = "done"
    /\ SecondChosen
    /\ \E s \in Stepped : /\ icevolume[s - 1] = equilibrium_profile_bottom[s]
                          /\ equilibrium_profile_bottom[s] < equilibrium_profile_top[s]
                          /\ rule[s] = "Hold"
    /\ \E s \in Stepped : rule[s] = "Decay"
    /\ \E s \in Stepped : rule[s] = "Growth"
    /\ \E s \in Stepped :
           /\ icevolume_2nd[s - 1] = equilibrium_profile_top_2nd[s]
           /\ equilibrium_profile_bottom_2nd[s] < equilibrium_profile_top_2nd[s]
           /\ rule_2nd[s] = "Hold"

\* C2: a Decay step lowers the volume and a Growth step raises it, in the
\* constant-rate mode and in the PISM rate mode alike; the rate that
\* decay_rate / growth_rate returns for an applied step is strictly positive.
C2_Direction(r, c, prev, new, top, bottom) ==
    /\ (r = "Decay") => (new < prev /\ decay_rate(c, prev, top) > 0)
    /\ (r = "Growth") => (new > prev /\ growth_rate(c, prev, bottom) > 0)

C2_MonotoneSteps ==
    \A s \in Stepped :
        /\ C2_Direction(rule[s], control_profile[s], icevolume[s - 1],
                        icevolume[s], equilibrium_profile_top[s],
                        equilibrium_profile_bottom[s])
        /\ SecondChosen =>
               C2_Direction(rule_2nd[s], control_2nd[s], icevolume_2nd[s - 1],
                            icevolume_2nd[s], equilibrium_profile_top_2nd[s],
                            equilibrium_profile_bottom_2nd[s])

\* a PISM dual run with a Decay step of one run and a Growth step of the
\* other whose square-root term is positive
C2_Witness ==
    /\ eq_profile = "PISM"
    /\ SecondChosen
    /\ \E s \in Stepped : rule[s] = "Decay"
    /\ \E s \in Stepped :
           /\ rule_2nd[s] = "Growth"
           /\ equilibrium_profile_bottom_2nd[s] - icevolume_2nd[s - 1] > 90000

\* C3: the update is never clamped to a bound: a Decay step yields exactly
\* previous - decay_rate and a Growth step exactly previous + growth_rate
\* (times the multiplier in the second run), also when the result crosses
\* the bound that triggered the step.
C3_Unclamped ==
    \A s \in Stepped :
        /\ (rule[s] = "Decay") =>
               icevolume[s] = icevolume[s - 1]
                   - decay_rate(control_profile[s], icevolume[s - 1],
                                equilibrium_profile_top[s])
        /\ (rule[s] = "Growth") =>
               icevolume[s] = icevolume[s - 1]
                   + growth_rate(control_profile[s], icevolume[s - 1],
                                 equilibrium_profile_bottom[s])
        /\ (SecondChosen /\ rule_2nd[s] = "Decay") =>
               icevolume_2nd[s] = icevolume_2nd[s - 1]
                   - Mul(multiply_decay,
                         decay_rate(control_2nd[s], icevolume_2nd[s - 1],
                                    equilibrium_profile_top_2nd[s]))
        /\ (SecondChosen /\ rule_2nd[s] = "Growth") =>
               icevolume_2nd[s] = icevolume_2nd[s - 1]
                   + Mul(multiply_growth,
                         growth_rate(control_2nd[s], icevolume_2nd[s - 1],
                                     equilibrium_profile_bottom_2nd[s]))

\* the scenario V = 1.0, top = 0.5, constant decay rate 0.6: the Decay step
\* yields 0.4, below top
C3_Witness ==
    /\ eq_profile # "PISM"
    /\ set_decay_rate = Dec(6, 10)
    /\ \E s \in Stepped : /\ rule[s] = "Decay"
                          /\ icevolume[s - 1] = Dec(1, 1)
                          /\ equilibrium_profile_top[s] = Dec(5, 10)
                          /\ icevolume[s] = Dec(4, 10)
                          /\ icevolume[s] < equilibrium_profile_top[s]

\* C4 as stated: when a run finishes every series has length time_max,
\* volume[0] is the start-policy volume, and the control and both bound
\* entries at index 0 are 0.0 for every start policy.
C4_SentinelAtZero ==
    (pc = "done") =>
        /\ DOMAIN time = Indices
        /\ DOMAIN control_profile = Indices
        /\ DOMAIN equilibrium_profile_top = Indices
        /\ DOMAIN equilibrium_profile_bottom = Indices
        /\ DOMAIN icevolume = Indices
        /\ icevolume[0] = (IF start_option = "warm" THEN Dec(13, 10)
                           ELSE IF start_option = "cold" THEN Dec(23, 1)
                           ELSE 0)
        /\ control_profile[0] = 0
        /\ equilibrium_profile_top[0] = 0
        /\ equilibrium_profile_bottom[0] = 0

\* C4 amended: from the initialization on (so in every step and when the
\* run finishes) every series has length time_max, volume[0] is the
\* start-policy volume, both bound entries at index 0 are 0.0, and the
\* control entry at index 0 is 0.0 for the cold start policy and 1.0 for
\* the others; the loop writes only the indices 1..time_max-1.
C4_IndexZero ==
    Running =>
        /\ DOMAIN time = Indices
        /\ DOMAIN control_profile = Indices
        /\ DOMAIN equilibrium_profile_top = Indices
        /\ DOMAIN equilibrium_profile_bottom = Indices
        /\ DOMAIN icevolume = Indices
        /\ icevolume[0] = (IF start_option = "warm" THEN Dec(13, 10)
                           ELSE IF start_option = "cold" THEN Dec(23, 1)
                           ELSE 0)
        /\ control_profile[0] = (IF start_option = "cold" THEN 0 ELSE Dec(1, 1))
        /\ equilibrium_profile_top[0] = 0
        /\ equilibrium_profile_bottom[0] = 0
        /\ time[0] = 1
        /\ \A i \in Indices : i >= t => /\ icevolume[i] = 0
                                        /\ control_profile[i] = 0
                                        /\ equilibrium_profile_top[i] = 0
                                        /\ equilibrium_profile_bottom[i] = 0
                                        /\ time[i] = 0

\* a finished warm-start run of five steps, all of which changed the volume
C4_Witness ==
    /\ pc = "done"
    /\ time_max = 6
    /\ start_option = "warm"
    /\ control_profile[0] = Dec(1, 1)
    /\ \A s \in Stepped : icevolume[s] # icevolume[s - 1]

\* C5: once the equilibrium family is installed (each built-in family in
\* turn) top(c) >= bottom(c) at every control value c of a grid over [0, 1]
\* that holds the breakpoints of the piecewise families and their neighbours;
\* and every executed step of either run whose control value lies in
\* [0, 1] recorded top >= bottom.
C5_Grid ==
    {50 * k : k \in 0 .. 200}
        \cup {2670, 2671, 2672, 5341, 5342, 5343, 7670, 7671, 7672, 4999, 5001}

C5_BoundOrdering ==
    /\ (pc = "ctl_profile") =>
           \A c \in C5_Grid :
               equilibrium_icevolume_top(c) >= equilibrium_icevolume_bottom(c)
    /\ \A s \in Stepped :
           /\ (0 <= control_profile[s] /\ control_profile[s] <= Scale) =>
                  equilibrium_profile_top[s] >= equilibrium_profile_bottom[s]
           /\ (SecondChosen /\ 0 <= control_2nd[s] /\ control_2nd[s] <= Scale) =>
                  equilibrium_profile_top_2nd[s] >= equilibrium_profile_bottom_2nd[s]

\* a hysteresis dual run: a step of the primary run with an open band, a
\* step of the second run with control in [0, 1] and an open band, and a
\* step of the second run with control outside [0, 1]
C5_Witness ==
    /\ eq_profile = "hysteresis"
    /\ SecondChosen
    /\ \E s \in Stepped :
           equilibrium_profile_top[s] > equilibrium_profile_bottom[s]
    /\ \E s \in Stepped :
           /\ 0 <= control_2nd[s] /\ control_2nd[s] <= Scale
           /\ equilibrium_profile_top_2nd[s] > equilibrium_profile_bottom_2nd[s]
    /\ \E s \in Stepped : control_2nd[s] < 0 \/ control_2nd[s] > Scale

\* C6: if eq_profile or ctl_profile is not one of the known names the
\* script ends in sys.exit during the set-up: no list is ever bound and no
\* iteration of the loop is ever executed.
C6_UnknownSelectorExits ==
    (\/ eq_profile \notin {"simple", "hysteresis", "PISM", "custom"}
     \/ ctl_profile \notin {"triangle", "custom"}) =>
        /\ pc \in {"eq_profile", "ctl_profile", "exit"}
        /\ (pc = "ctl_profile") =>
               eq_profile \in {"simple", "hysteresis", "PISM", "custom"}
        /\ series = Unbound
        /\ t = 0
        /\ Stepped = {}

\* the script has exited on an unknown control-series name after a known
\* equilibrium family was installed
C6_Witness ==
    /\ pc = "exit"
    /\ eq_profile = "PISM"
    /\ ctl_profile = "sine"
    /\ time_max = 6

\* C7 as stated: no run with time_max <= 1 completes; in particular no
\* completed run returns series of length 1.
C7_DegenerateHorizonRejected ==
    (pc = "done") => (time_max > 1 /\ DOMAIN icevolume # {0})

\* C8: in every executed step s of a dual run the second control value is
\* control(s) for "same", factor*control(s) + (center - factor/2) for
\* "amplitude_reduced" and control(period_factor*s) for "period_reduced"
\* (the primary control recorded at index period_factor*s when that index
\* has been executed), replaced by 1 - c iff the start policies differ.
C8_Base(s) ==
    IF second_run_option = "amplitude_reduced"
    THEN ((amplitude_reduction_factor * control_profile[s]) \div Scale)
         + (Dec(5, 10) - (amplitude_reduction_factor \div 2))
    ELSE IF second_run_option = "period_reduced"
         THEN control(period_reduction_factor * s)
    ELSE control_profile[s]

C8_SecondControl ==
    SecondChosen =>
        \A s \in Stepped :
            /\ (start_option = start_option_2nd) => control_2nd[s] = C8_Base(s)
            /\ (start_option # start_option_2nd) =>
                   control_2nd[s] = Scale - C8_Base(s)
            /\ (/\ second_run_option = "period_reduced"
                /\ period_reduction_factor * s \in Stepped) =>
                   C8_Base(s) = control_profile[period_reduction_factor * s]

\* period_factor = 2, equal start policies: control_2nd at 5 is control(10),
\* which differs from control(5); and the value sampled at step 2 is the
\* primary control recorded at step 4
C8_Witness ==
    /\ SecondChosen
    /\ second_run_option = "period_reduced"
    /\ period_reduction_factor = 2
    /\ start_option = start_option_2nd
    /\ 5 \in Stepped
    /\ control_2nd[5] = control(10)
    /\ control_2nd[5] # control_profile[5]
    /\ control_2nd[2] = control_profile[4]

\* C9: the primary run's series are at every index those of the run with
\* the second run disabled, whatever the second run's transform, transform
\* parameters, start policy and multipliers: the second run's
\* initialization and steps write none of them.
RECURSIVE C9_PrimaryAlone(_)
C9_PrimaryAlone(n) ==
    IF n = 0 THEN InitPrimary(Unbound)
    ELSE PrimaryStep(C9_PrimaryAlone(n - 1), n)

C9_PrimaryUntouched ==
    Running =>
        LET alone == C9_PrimaryAlone(t - 1)
        IN  /\ time = alone.time
            /\ control_profile = alone.control_profile
            /\ equilibrium_profile_top = alone.equilibrium_profile_top
            /\ equilibrium_profile_bottom = alone.equilibrium_profile_bottom
            /\ icevolume = alone.icevolume
            /\ rule = alone.rule

\* a finished dual run of five steps whose second run differs from the
\* primary run in transform, start policy, multipliers and volumes
C9_Witness ==
    /\ pc = "done"
    /\ time_max = 6
    /\ SecondChosen
    /\ second_run_option = "amplitude_reduced"
    /\ start_option # start_option_2nd
    /\ multiply_decay # Dec(1, 1)
    /\ \A s \in Stepped : /\ icevolume_2nd[s] # icevolume[s]
                          /\ icevolume_2nd[s] # icevolume_2nd[s - 1]
                          /\ icevolume[s] # icevolume[s - 1]

\* C10: in the constant-rate mode, with growth rate g and decay rate d (in
\* the second run: times its multipliers), if every bound produced so far
\* lies in [L, U] and L <= V[0] <= U then L - d < V[s] < U + g at every
\* index written so far; in particular with the simple family, the triangle
\* control and start volume 0.0 the volume stays strictly between
\* -set_decay_rate and 1 + set_growth_rate.
C10_Within(V, tops, bottoms, g, d) ==
    LET ends == {V[0], 0, Scale}
                    \cup {tops[s] : s \in Stepped}
                    \cup {bottoms[s] : s \in Stepped}
    IN  \A L \in ends, U \in ends :
            (/\ L <= V[0] /\ V[0] <= U
             /\ \A s \in Stepped : /\ L <= bottoms[s] /\ bottoms[s] <= U
                                   /\ L <= tops[s] /\ tops[s] <= U) =>
                \A s \in {0} \cup Stepped : L - d < V[s] /\ V[s] < U + g

C10_BoundedOvershoot ==
    (Running /\ eq_profile # "PISM") =>
        /\ C10_Within(icevolume, equilibrium_profile_top,
                      equilibrium_profile_bottom, set_growth_rate, set_decay_rate)
        /\ SecondChosen =>
               C10_Within(icevolume_2nd, equilibrium_profile_top_2nd,
                          equilibrium_profile_bottom_2nd,
                          Mul(multiply_growth, set_growth_rate),
                          Mul(multiply_decay, set_decay_rate))
        /\ (/\ eq_profile = "simple"
            /\ ctl_profile = "triangle"
            /\ start_option = "zero") =>
               \A s \in {0} \cup Stepped :
                   /\ 0 - set_decay_rate < icevolume[s]
                   /\ icevolume[s] < Scale + set_growth_rate

\* simple family, triangle control, start volume 0.0: a Decay step has
\* taken the primary volume below 0, and a Growth step has taken the second
\* run's volume above every bound that run has produced
C10_Witness ==
    /\ eq_profile = "simple"
    /\ ctl_profile = "triangle"
    /\ start_option = "zero"
    /\ Running
    /\ SecondChosen
    /\ \E s \in Stepped : icevolume[s] < 0 /\ rule[s] = "Decay"
    /\ \E s \in Stepped :
           /\ rule_2nd[s] = "Growth"
           /\ \A u \in Stepped :
                  /\ icevolume_2nd[s] > equilibrium_profile_bottom_2nd[u]
                  /\ icevolume_2nd[s] > equilibrium_profile_top_2nd[u]

===========================================================================
